---- MODULE Spec2Model ----
(***************************************************************************)
(* Model of handler_runpod.py: the RunPod job handler of the Chandra OCR  *)
(* worker.  Job threads run handler -> process_job concurrently; the       *)
(* InferenceManager singleton and the vLLM subprocess are process-wide.    *)
(***************************************************************************)
EXTENDS Integers, Sequences, FiniteSets, TLC

\* ------------------------------------------------------------------ bounds
NumThreads == 2
MaxPages == 2
MaxSpawn == 2

Threads == 1..NumThreads
Pids == 1..MaxSpawn

\* ------------------------------------------------------------ module state
VARIABLES
    manager,        \* global manager: <<>> is None, <<k>> the k-th handle built
    manager_lock,   \* set of threads holding manager_lock (empty or one)
    vllm_process,   \* global vllm_process: <<>> is None, <<p>> the Popen of pid p
    vllm_lock,      \* set of threads holding vllm_lock
    procs,          \* OS state of every pid: "unborn", "loading", "serving", "exited"
    launch,         \* value of should_launch_vllm() (environment, fixed)
    expired,        \* time.time() >= deadline of the running readiness wait
    pc,             \* position of every job thread
    job,            \* per thread: what the running job did so far
    returned,       \* what the step just taken handed back from handler
    io,             \* the disk and network I/O the step just taken performed
    handles,        \* number of InferenceManager objects constructed so far
    ready_for,      \* pids for which wait_for_vllm_ready returned normally
    handle_proc,    \* vllm_process at the time the cached handle was built
    answer,         \* <<status>> the health poll just taken got, else <<>>
    worker          \* "running", then the stages of shutdown_vllm at exit

vars == <<manager, manager_lock, vllm_process, vllm_lock, procs, launch, worker,
          expired, pc, job, returned, io, handles, ready_for, handle_proc, answer>>

None == <<>>

\* ---------------------------------------------------------- job inputs
\* A payload field is absent (missing, None or empty: falsy), valid or
\* invalid (base64 that does not decode / a URL that cannot be fetched).
FieldValues == {"absent", "valid", "invalid"}

\* The inline field can also hold a truthy value that is not a string (a
\* JSON number or list): base64.b64decode raises TypeError on it.
InlineValues == FieldValues \cup {"wrongtype"}

\* job["input"] when it is a dict.  file stands for the value of
\* job_input.get("file") or job_input.get("file_b64"); other: the dict has
\* keys besides the payload ones (a dict without payload need not be empty).
JobInputs ==
    [file : InlineValues, file_url : FieldValues, other : BOOLEAN]

\* if not job_input
IsEmpty(ji) == ji.file = "absent" /\ ji.file_url = "absent" /\ ~ji.other

\* No inline content and no remote reference.
NoPayload(ji) == ji.file = "absent" /\ ji.file_url = "absent"

InlineField(ji) == ji.file

\* get_file_payload without its last line: nothing is raised when the input
\* has no payload field, and the caller goes on.
get_file_payload_no_final_raise(ji) ==
    IF IsEmpty(ji)
    THEN [exc |-> "InputError", msg |-> "Job input cannot be empty.", net |-> FALSE]
    ELSE IF ji.file = "invalid"
    THEN [exc |-> "InputError", msg |-> "Unable to decode 'file' payload.",
          net |-> FALSE]
    ELSE IF ji.file = "wrongtype"
    THEN [exc |-> "TypeError", msg |-> "argument should be a bytes-like object",
          net |-> FALSE]
    ELSE IF ji.file = "absent" /\ ji.file_url = "invalid"
    THEN [exc |-> "InputError", msg |-> "Failed to download file", net |-> TRUE]
    ELSE [exc |-> "none", msg |-> "", net |-> ji.file = "absent" /\ ji.file_url # "absent"]

\* get_file_payload: exc is the exception raised ("none": returns), net
\* tells whether urlopen was called.  Only binascii.Error and ValueError
\* of b64decode become InputError; its TypeError passes through.
get_file_payload(ji) ==
    IF IsEmpty(ji)
    THEN [exc |-> "InputError", msg |-> "Job input cannot be empty.", net |-> FALSE]
    ELSE IF InlineField(ji) # "absent"
    THEN IF InlineField(ji) = "invalid"
         THEN [exc |-> "InputError", msg |-> "Unable to decode 'file' payload.",
               net |-> FALSE]
         ELSE IF InlineField(ji) = "wrongtype"
         THEN [exc |-> "TypeError", msg |-> "argument should be a bytes-like object",
               net |-> FALSE]
         ELSE [exc |-> "none", msg |-> "", net |-> FALSE]
    ELSE IF ji.file_url # "absent"
    THEN IF ji.file_url = "invalid"
         THEN [exc |-> "InputError", msg |-> "Failed to download file", net |-> TRUE]
         ELSE [exc |-> "none", msg |-> "", net |-> TRUE]
    ELSE [exc |-> "InputError", msg |-> "Provide either 'file' or 'file_url'",
          net |-> FALSE]

\* ------------------------------------------------------------ job record
NewJob ==
    [nopayload |-> FALSE,   \* the input had neither inline content nor URL
     tmp       |-> "none",  \* temp artifact: "none", "exists", "absent"
     unlinks   |-> 0,       \* calls of tmp_path.unlink()
     load      |-> "none",  \* load_file: "raised", "empty", "pages"
     ensured   |-> FALSE,   \* the job called ensure_manager
     first     |-> FALSE,   \* ... before any process was spawned or handle built
     spawned   |-> FALSE,   \* the job called subprocess.Popen
     polled    |-> FALSE,   \* the job polled the health endpoint
     waited    |-> FALSE,   \* an initialization failed while the job was
                            \* blocked on manager_lock
     handle    |-> None,    \* what ensure_manager returned to the job
     gen       |-> FALSE]   \* the job invoked inference_manager.generate

\* The end of a job: outcome is "result" (process_job's dict), "error" (the
\* error payload) or "raised" (an exception left handler); exc and msg are
\* the exception, images the pages handed to the engine, ret the dict.
Return(j, outcome, exc, msg, images, ret) ==
    [outcome |-> outcome, job |-> j, exc |-> exc, msg |-> msg,
     images |-> images, ret |-> ret]

\* No job ended in the step just taken.
Nothing == Return(NewJob, "none", "none", "", <<>>, <<>>)

Init ==
    /\ manager = None
    /\ manager_lock = {}
    /\ vllm_process = None
    /\ vllm_lock = {}
    /\ procs = [p \in Pids |-> "unborn"]
    /\ launch \in BOOLEAN
    /\ expired = FALSE
    /\ pc = [t \in Threads |-> "idle"]
    /\ job = [t \in Threads |-> NewJob]
    /\ returned = Nothing
    /\ io = {}
    /\ handles = 0
    /\ ready_for = {}
    /\ handle_proc = None
    /\ answer = <<>>
    /\ worker = "running"

\* ------------------------------------------------------------ job steps
\* The job goes on to the next position.
Goto(t, l, j) ==
    /\ pc' = [pc EXCEPT ![t] = l]
    /\ job' = [job EXCEPT ![t] = j]
    /\ returned' = Nothing

\* handler returns {"error": str(exc)} for an InputError (except clause).
ReturnError(t, j, m) ==
    /\ pc' = [pc EXCEPT ![t] = "idle"]
    /\ job' = [job EXCEPT ![t] = NewJob]
    /\ returned' = Return(j, "error", "InputError", m, <<>>, <<>>)

\* handler has no clause for any other exception: it leaves handler.
Escape(t, j, e, m) ==
    /\ pc' = [pc EXCEPT ![t] = "idle"]
    /\ job' = [job EXCEPT ![t] = NewJob]
    /\ returned' = Return(j, "raised", e, m, <<>>, <<>>)

\* A startup error leaves start_vllm_server and ensure_manager (both with
\* blocks release their lock) and then handler; the jobs blocked on
\* manager_lock meanwhile are noted.
StartupEscape(t, j, e, m) ==
    /\ pc' = [pc EXCEPT ![t] = "idle"]
    /\ job' = [u \in Threads |->
                 IF u = t THEN NewJob
                 ELSE IF pc[u] = "manager_lock"
                 THEN [job[u] EXCEPT !.waited = TRUE]
                 ELSE job[u]]
    /\ returned' = Return(j, "raised", e, m, <<>>, <<>>)

\* What get_file_payload does on the job inputs, each outcome once.
PayloadOutcomes ==
    {[nopayload |-> NoPayload(ji), payload |-> get_file_payload(ji)] : ji \in JobInputs}

\* handler: entry, isinstance check, then process_job up to get_file_payload.
Handler(t) ==
    /\ pc[t] = "idle"
    /\ worker = "running"
    /\ answer' = <<>>
    /\ UNCHANGED <<manager, manager_lock, vllm_process, vllm_lock, procs, launch, worker,
                   expired, handles, ready_for, handle_proc>>
    /\ \/ \* job["input"] is not a dict: the error payload, no exception
          /\ UNCHANGED <<pc, job>>
          /\ io' = {}
          /\ returned' = Return(NewJob, "error", "none",
                               "Job payload is missing the 'input' dictionary.",
                               <<>>, <<>>)
       \/ \E o \in PayloadOutcomes :
            LET r == o.payload
                j == [NewJob EXCEPT !.nopayload = o.nopayload]
            IN /\ io' = IF r.net THEN {"fetch"} ELSE {}
               /\ IF r.exc = "InputError"
                  THEN ReturnError(t, j, r.msg)
                  ELSE IF r.exc = "none"
                  THEN Goto(t, "load_file", j)
                  ELSE Escape(t, j, r.exc, r.msg)

\* tmp_path.unlink(): on a path that is gone, on a path it may not delete,
\* or on a path it deletes.
unlink(exists, denied) ==
    IF ~exists THEN [tmp |-> "absent", exc |-> "FileNotFoundError"]
    ELSE IF denied THEN [tmp |-> "exists", exc |-> "PermissionError"]
    ELSE [tmp |-> "absent", exc |-> "none"]

\* The finally clause: try unlink, except FileNotFoundError: pass.  The
\* result is the exception that leaves the clause.
release(u) == IF u.exc = "FileNotFoundError" THEN "none" ELSE u.exc

\* What load_file does: it raises, or returns no page, or returns pages.
\* The pages are read only where the batch is built, and are drawn there.
LoadOutcomes == {"raised", "empty", "pages"}

\* if not images
NoPages(loaded) == loaded = "empty"

\* The job's own file work, which no other thread sees, as one step.
\* with tempfile.NamedTemporaryFile(delete=False) as tmp_file: write.  The
\* file exists from its creation on; a failing write (disk full) leaves the
\* with block by the exception, which closes but does not delete it.
\* try: images = load_file(...) finally: unlink; then the check of images.
\* vanished: the file was removed behind the job's back before the finally
\* clause ran; denied: unlink may not delete it.
LoadFile(t) ==
    /\ pc[t] = "load_file"
    /\ UNCHANGED <<manager, manager_lock, vllm_process, vllm_lock, procs, launch, worker,
                   expired, handles, ready_for, handle_proc>>
    /\ answer' = <<>>
    /\ \/ /\ io' = {"tmpfile"}
          /\ Escape(t, [job[t] EXCEPT !.tmp = "exists"], "OSError", "write failed")
       \/ /\ io' = {"tmpfile", "load_file", "unlink"}
          /\ \E loaded \in LoadOutcomes, vanished \in BOOLEAN, denied \in BOOLEAN :
               LET u == unlink(~vanished, denied)
                   j == [job[t] EXCEPT !.tmp = u.tmp, !.unlinks = @ + 1, !.load = loaded]
               IN IF release(u) # "none"
                  THEN Escape(t, j, release(u), "unlink failed")
                  ELSE IF loaded = "raised"
                  THEN Escape(t, j, "LoaderError", "load_file raised")
                  ELSE IF NoPages(loaded)
                  THEN ReturnError(t, j, "No pages detected in the provided document.")
                  ELSE Goto(t, "ensure_manager", j)

\* ------------------------------------------------------- the backend
Alive(p) == procs[p] \in {"loading", "serving"}

\* Number of processes spawned so far (the pids are handed out in order).
Spawned == Cardinality({p \in Pids : procs[p] # "unborn"})

\* start_vllm_server without its early return: the recorded process is
\* never looked at.
RunningUnchecked == FALSE

\* vllm_process and vllm_process.poll() is None
Running == vllm_process # None /\ Alive(vllm_process[1])

\* vllm_process and vllm_process.poll() is not None
Exited == vllm_process # None /\ procs[vllm_process[1]] = "exited"

\* What GET <base>/models can answer: 0 stands for no connection.  Only a
\* serving backend answers the request; one configured with an API key
\* answers 401.
Responses ==
    IF \E p \in Pids : procs[p] = "serving" THEN {200, 401}
    ELSE IF \E p \in Pids : procs[p] = "loading" THEN {0, 503}
    ELSE {0}

\* urllib.request.urlopen: returns the response of a 2xx answer and raises
\* URLError (no connection) or HTTPError (any other status).
urlopen(status) ==
    IF status >= 200 /\ status < 300
    THEN [raised |-> FALSE, status |-> status]
    ELSE [raised |-> TRUE, status |-> status]

\* if 200 <= response.status < 500
Servable(status) == 200 =< status /\ status < 500

\* The environment: a backend process ends, or finishes loading the model.
ProcExit(p) ==
    /\ Alive(p)
    /\ procs' = [procs EXCEPT ![p] = "exited"]
    /\ returned' = Nothing
    /\ answer' = <<>>
    /\ io' = {}
    /\ UNCHANGED <<manager, manager_lock, vllm_process, vllm_lock, launch, worker,
                   expired, pc, job, handles, ready_for, handle_proc>>

ProcServing(p) ==
    /\ procs[p] = "loading"
    /\ procs' = [procs EXCEPT ![p] = "serving"]
    /\ returned' = Nothing
    /\ answer' = <<>>
    /\ io' = {}
    /\ UNCHANGED <<manager, manager_lock, vllm_process, vllm_lock, launch, worker,
                   expired, pc, job, handles, ready_for, handle_proc>>

\* The clock passes the deadline of the readiness wait in progress.
DeadlinePasses ==
    /\ \E t \in Threads : pc[t] \in {"wait_loop", "poll"}
    /\ ~expired
    /\ expired' = TRUE
    /\ returned' = Nothing
    /\ answer' = <<>>
    /\ io' = {}
    /\ UNCHANGED <<manager, manager_lock, vllm_process, vllm_lock, procs, launch, worker,
                   pc, job, handles, ready_for, handle_proc>>

\* ----------------------------------------------------- ensure_manager
\* ensure_manager that looks at the backing process first: a cached handle
\* whose process has exited is dropped and initialization runs again.
EnsureManagerRevalidating(t) ==
    /\ answer' = <<>>
    /\ io' = {}
    /\ pc[t] = "ensure_manager"
    /\ UNCHANGED <<manager_lock, vllm_process, vllm_lock, procs, launch, worker,
                   expired, handles, ready_for, handle_proc>>
    /\ IF manager # None /\ ~Exited
       THEN /\ Goto(t, "generate", [job[t] EXCEPT !.ensured = TRUE, !.handle = manager])
            /\ UNCHANGED manager
       ELSE /\ Goto(t, "manager_lock",
                    [job[t] EXCEPT !.ensured = TRUE,
                                   !.first = (Spawned = 0 /\ handles = 0)])
            /\ manager' = None

\* if manager is not None: return manager (the unlocked first check)
EnsureManager(t) ==
    /\ answer' = <<>>
    /\ io' = {}
    /\ pc[t] = "ensure_manager"
    /\ UNCHANGED <<manager, manager_lock, vllm_process, vllm_lock, procs, launch, worker,
                   expired, handles, ready_for, handle_proc>>
    /\ IF manager # None
       THEN Goto(t, "generate", [job[t] EXCEPT !.ensured = TRUE, !.handle = manager])
       ELSE Goto(t, "manager_lock",
                 [job[t] EXCEPT !.ensured = TRUE,
                                !.first = (Spawned = 0 /\ handles = 0)])

\* The second check left out: single-checked locking.
SecondCheckSkipped(m) == FALSE

\* if manager is not None (the second check, under manager_lock)
SecondCheck(m) == m # None

\* ensure_manager with the handle built and cached before the server is
\* started, instead of after.
AcquireManagerLockCachingEarly(t) ==
    /\ answer' = <<>>
    /\ io' = {}
    /\ pc[t] = "manager_lock"
    /\ manager_lock = {}
    /\ UNCHANGED <<vllm_process, vllm_lock, procs, launch, worker, expired, ready_for>>
    /\ IF SecondCheck(manager)
       THEN /\ manager_lock' = {}
            /\ Goto(t, "generate", [job[t] EXCEPT !.handle = manager])
            /\ UNCHANGED <<manager, handles, handle_proc>>
       ELSE /\ manager_lock' = {t}
            /\ manager' = <<handles + 1>>
            /\ handles' = handles + 1
            /\ handle_proc' = vllm_process
            /\ Goto(t, IF launch THEN "start_vllm_server" ELSE "construct", job[t])

\* with manager_lock: second check, then should_launch_vllm().
AcquireManagerLock(t) ==
    /\ answer' = <<>>
    /\ io' = {}
    /\ pc[t] = "manager_lock"
    /\ manager_lock = {}
    /\ UNCHANGED <<manager, vllm_process, vllm_lock, procs, launch, worker,
                   expired, handles, ready_for, handle_proc>>
    /\ IF SecondCheck(manager)
       THEN /\ manager_lock' = {}
            /\ Goto(t, "generate", [job[t] EXCEPT !.handle = manager])
       ELSE /\ manager_lock' = {t}
            /\ Goto(t, IF launch THEN "start_vllm_server" ELSE "construct", job[t])

\* start_vllm_server: with vllm_lock
AcquireVllmLock(t) ==
    /\ answer' = <<>>
    /\ io' = {}
    /\ pc[t] = "start_vllm_server"
    /\ vllm_lock = {}
    /\ vllm_lock' = {t}
    /\ Goto(t, "popen", job[t])
    /\ UNCHANGED <<manager, manager_lock, vllm_process, procs, launch, worker,
                   expired, handles, ready_for, handle_proc>>

\* start_vllm_server under vllm_lock: return at once when the recorded
\* process runs (no readiness wait on this path); otherwise Popen, which
\* raises OSError when the process cannot be spawned, then leave the lock and
\* enter wait_for_vllm_ready, which computes its deadline.
Popen(t) ==
    /\ pc[t] = "popen"
    /\ vllm_lock' = {}
    /\ UNCHANGED <<manager, launch, worker, handles, ready_for, handle_proc>>
    /\ answer' = <<>>
    /\ io' = IF Running THEN {} ELSE {"popen"}
    /\ IF Running
       THEN /\ Goto(t, "construct", job[t])
            /\ UNCHANGED <<manager_lock, vllm_process, procs, expired>>
       ELSE \/ /\ Spawned < MaxSpawn
               /\ procs' = [procs EXCEPT ![Spawned + 1] = "loading"]
               /\ vllm_process' = <<Spawned + 1>>
               /\ expired' = FALSE
               /\ Goto(t, "wait_loop", [job[t] EXCEPT !.spawned = TRUE])
               /\ UNCHANGED manager_lock
            \/ /\ manager_lock' = {}
               /\ StartupEscape(t, [job[t] EXCEPT !.spawned = TRUE], "OSError",
                         "Popen failed")
               /\ UNCHANGED <<vllm_process, procs, expired>>

\* wait_for_vllm_ready looping on `while True`: no deadline.
WaitLoopNoDeadline(t) ==
    /\ answer' = <<>>
    /\ io' = {}
    /\ pc[t] = "wait_loop"
    /\ UNCHANGED <<manager, vllm_process, vllm_lock, procs, launch, worker,
                   expired, handles, ready_for, handle_proc>>
    /\ IF Exited
       THEN /\ manager_lock' = {}
            /\ StartupEscape(t, job[t], "RuntimeError",
                             "vLLM server terminated during startup.")
       ELSE /\ Goto(t, "poll", job[t])
            /\ UNCHANGED manager_lock

\* ensure_manager taking manager_lock by acquire() with a release() only
\* on the normal path: an exception of the wait leaves the lock held.
WaitLoopKeepingLock(t) ==
    /\ answer' = <<>>
    /\ io' = {}
    /\ pc[t] = "wait_loop"
    /\ UNCHANGED <<manager, manager_lock, vllm_process, vllm_lock, procs, launch,
                   worker, handles, ready_for, handle_proc>>
    /\ expired' = FALSE
    /\ IF expired
       THEN StartupEscape(t, job[t], "RuntimeError", "Timed out waiting for vLLM server")
       ELSE IF Exited
       THEN StartupEscape(t, job[t], "RuntimeError",
                          "vLLM server terminated during startup.")
       ELSE Goto(t, "poll", job[t])

\* wait_for_vllm_ready: the loop condition and the poll() check.  The
\* deadline is a local of the call: it is gone when the call raises, and
\* not passed (expired is FALSE) when the loop goes on.
WaitLoop(t) ==
    /\ answer' = <<>>
    /\ io' = {}
    /\ pc[t] = "wait_loop"
    /\ UNCHANGED <<manager, vllm_process, vllm_lock, procs, launch, worker,
                   handles, ready_for, handle_proc>>
    /\ expired' = FALSE
    /\ IF expired
       THEN /\ manager_lock' = {}
            /\ StartupEscape(t, job[t], "RuntimeError",
                             "Timed out waiting for vLLM server")
       ELSE IF Exited
       THEN /\ manager_lock' = {}
            /\ StartupEscape(t, job[t], "RuntimeError",
                             "vLLM server terminated during startup.")
       ELSE /\ Goto(t, "poll", job[t])
            /\ UNCHANGED manager_lock

\* wait_for_vllm_ready: urlopen, the status check, and the sleep of the
\* except clause.  A response that is not servable loops without sleeping.
\* The return ends the call, and its deadline with it.
Poll(t) ==
    /\ pc[t] = "poll"
    /\ io' = {"poll"}
    /\ UNCHANGED <<manager, manager_lock, vllm_process, vllm_lock, procs, launch, worker,
                   handles, handle_proc>>
    /\ \E status \in Responses :
         LET r == urlopen(status)
         IN /\ answer' = <<status>>
            /\ IF ~r.raised /\ Servable(r.status)
               THEN /\ Goto(t, "construct", [job[t] EXCEPT !.polled = TRUE])
                    /\ ready_for' = ready_for \cup {vllm_process[1]}
                    /\ expired' = FALSE
               ELSE /\ Goto(t, "wait_loop", [job[t] EXCEPT !.polled = TRUE])
                    /\ UNCHANGED <<ready_for, expired>>

\* manager = InferenceManager(...); leave manager_lock; return manager
Construct(t) ==
    /\ answer' = <<>>
    /\ io' = {}
    /\ pc[t] = "construct"
    /\ handles' = handles + 1
    /\ manager' = <<handles + 1>>
    /\ handle_proc' = vllm_process
    /\ manager_lock' = {}
    /\ Goto(t, "generate", [job[t] EXCEPT !.handle = <<handles + 1>>])
    /\ UNCHANGED <<vllm_process, vllm_lock, procs, launch, worker, expired, ready_for>>

\* ------------------------------------------------ inference and folding
\* The page images load_file can return, and the engine's answer for each:
\* generate returns one result per batch item, in order.  The second image
\* is one whose inference fails (a non-null error, degraded text).
Images == {"imgA", "imgB"}

BatchOutput(img) ==
    IF img = "imgA"
    THEN [markdown |-> <<"A">>, html |-> <<"<p>", "A", "</p>">>, error |-> "null"]
    ELSE [markdown |-> <<"B">>, html |-> <<"<p>", "B", "</p>">>, error |-> "failed"]

generate(batch) == [i \in 1..Len(batch) |-> BatchOutput(batch[i].image)]

\* batch = [BatchInputItem(image=image, ...) for image in images]
Batch(images) == [i \in 1..Len(images) |-> [image |-> images[i]]]

\* int_from_input(job_input.get("max_output_tokens"), 8192)
MaxTokenValues == {"absent", "integer", "garbage"}
int_from_input(value) ==
    IF value = "garbage" THEN "InputError" ELSE "none"

\* sep.join(parts) on strings held as sequences of characters
RECURSIVE Join(_, _)
Join(parts, sep) ==
    IF Len(parts) = 0 THEN <<>>
    ELSE IF Len(parts) = 1 THEN parts[1]
    ELSE parts[1] \o sep \o Join(Tail(parts), sep)

\* The fold with the pages whose inference failed left out.
PagesWithoutErrors(results) ==
    LET kept == SelectSeq(results, LAMBDA r : r.error = "null")
    IN [i \in 1..Len(kept) |->
          [page_index |-> i - 1, markdown |-> kept[i].markdown,
           html |-> kept[i].html, error |-> kept[i].error]]

\* for idx, result in enumerate(results): pages.append(page_data)
Pages(results) ==
    [i \in 1..Len(results) |->
        [page_index |-> i - 1, markdown |-> results[i].markdown,
         html |-> results[i].html, error |-> results[i].error]]

\* The dict process_job returns.
JobResult(results) ==
    LET pages == Pages(results)
    IN [filename |-> "document.pdf",
        num_pages |-> Len(pages),
        markdown |-> Join([i \in 1..Len(pages) |-> pages[i].markdown], <<"\n", "\n">>),
        html |-> Join([i \in 1..Len(pages) |-> pages[i].html], <<"\n">>),
        pages |-> pages]

\* The lists of pages a document can have.
PageLists == UNION {[1..n -> Images] : n \in 1..MaxPages}

\* results = inference_manager.generate(batch, max_output_tokens=
\* int_from_input(...), ...): the arguments are evaluated before the call,
\* so an InputError of int_from_input comes before generate is invoked.
\* Then the fold into the returned dict.
Generate(t) ==
    /\ answer' = <<>>
    /\ io' = {}
    /\ pc[t] = "generate"
    /\ UNCHANGED <<manager, manager_lock, vllm_process, vllm_lock, procs, launch, worker,
                   expired, handles, ready_for, handle_proc>>
    /\ \/ \E mot \in MaxTokenValues :
            /\ int_from_input(mot) # "none"
            /\ ReturnError(t, job[t], "max_output_tokens must be an integer.")
       \/ \* generate raises
          Escape(t, [job[t] EXCEPT !.gen = TRUE], "EngineError", "generate raised")
       \/ \E images \in PageLists :
            /\ pc' = [pc EXCEPT ![t] = "idle"]
            /\ job' = [job EXCEPT ![t] = NewJob]
            /\ returned' = Return([job[t] EXCEPT !.gen = TRUE], "result", "none",
                                  "", images, JobResult(generate(Batch(images))))

\* ------------------------------------------------------- shutdown_vllm
\* atexit.register(shutdown_vllm): it runs when the interpreter exits, after
\* runpod.serverless.start has returned, so no job is running and none
\* starts afterwards; vllm_process cannot change and stands for proc.
\* if not proc or proc.poll() is not None: return; else proc.terminate().
ShutdownVllm ==
    /\ worker = "running"
    /\ \A t \in Threads : pc[t] = "idle"
    /\ worker' = IF Running THEN "terminate_sent" ELSE "stopped_noop"
    /\ returned' = Nothing
    /\ answer' = <<>>
    /\ io' = {}
    /\ UNCHANGED <<manager, manager_lock, vllm_process, vllm_lock, procs, launch,
                   expired, pc, job, handles, ready_for, handle_proc>>

\* proc.wait(timeout=30) with proc.kill() on TimeoutExpired, but the
\* process is not killed: it is left to end by itself.
ShutdownWaitNoKill ==
    /\ worker = "terminate_sent"
    /\ worker' = IF Exited THEN "stopped_graceful" ELSE "stopped_killed"
    /\ returned' = Nothing
    /\ answer' = <<>>
    /\ io' = {}
    /\ UNCHANGED <<manager, manager_lock, vllm_process, vllm_lock, procs, launch,
                   expired, pc, job, handles, ready_for, handle_proc>>

\* try: proc.wait(timeout=30) except TimeoutExpired: proc.kill().  wait
\* returns when the process has ended (ProcExit, by the signal or not);
\* while it runs, the 30 s can elapse, and kill ends it.
ShutdownWait ==
    /\ worker = "terminate_sent"
    /\ IF Exited
       THEN /\ worker' = "stopped_graceful"
            /\ UNCHANGED procs
       ELSE /\ worker' = "stopped_killed"
            /\ procs' = [procs EXCEPT ![vllm_process[1]] = "exited"]
    /\ returned' = Nothing
    /\ answer' = <<>>
    /\ io' = {}
    /\ UNCHANGED <<manager, manager_lock, vllm_process, vllm_lock, launch,
                   expired, pc, job, handles, ready_for, handle_proc>>

Next ==
    \/ \E t \in Threads :
        \/ Handler(t)
        \/ LoadFile(t)
        \/ EnsureManager(t)
        \/ AcquireManagerLock(t)
        \/ AcquireVllmLock(t)
        \/ Popen(t)
        \/ WaitLoop(t)
        \/ Poll(t)
        \/ Construct(t)
        \/ Generate(t)
    \/ \E p \in Pids : ProcExit(p) \/ ProcServing(p)
    \/ DeadlinePasses
    \/ ShutdownVllm
    \/ ShutdownWait

Spec == Init /\ [][Next]_vars

\* Scheduling: a job thread inside ensure_manager is a running OS thread,
\* and each of its steps ends by itself (the with blocks, Popen, urlopen
\* with timeout=5, sleep(2), the constructor), so a step that stays
\* possible is taken; a thread blocked on manager_lock gets the lock when
\* it is free again and again (it is woken at each release); the clock of
\* time.time() advances past the deadline of a wait that goes on.
Fairness ==
    /\ \A t \in Threads :
         /\ SF_vars(AcquireManagerLock(t))
         /\ WF_vars(AcquireVllmLock(t))
         /\ WF_vars(Popen(t))
         /\ WF_vars(WaitLoop(t))
         /\ WF_vars(Poll(t))
         /\ WF_vars(Construct(t))
    /\ WF_vars(DeadlinePasses)

LiveSpec == Init /\ [][Next]_vars /\ Fairness

\* ================================================================ claims
\* The threads that have a handle back from ensure_manager.
Holders == {t \in Threads : pc[t] = "generate"}

\* The first-time callers among them: they called ensure_manager before any
\* process was spawned or handle built, so their calls overlap.
FirstHolders == {t \in Holders : job[t].first}

\* C1 as stated: when the threads call ensure_manager concurrently for the
\* first time in local-backend mode, exactly one process is spawned, exactly
\* one handle is constructed and every caller that returns has that handle.
C1_ExactlyOneSpawn ==
    launch /\ FirstHolders # {} =>
        /\ Spawned = 1
        /\ handles = 1
        /\ \A t \in Holders : job[t].handle = manager

\* C1 amended: exactly one handle is constructed and every caller that
\* returns has it; a process is spawned only when every process spawned
\* before has exited, so exactly one is spawned unless one exited during
\* startup, and at most one is alive.
C1_OneHandleSpawnAfterExit ==
    launch /\ Holders # {} =>
        /\ handles = 1
        /\ \A t \in Holders : job[t].handle = manager /\ manager = <<1>>
        /\ Spawned >= 1
        /\ \A p \in Pids : p < Spawned => procs[p] = "exited"
        /\ ((\A p \in Pids : procs[p] # "exited") => Spawned = 1)

\* Two first-time callers that overlapped both hold the one handle, and one
\* process was spawned.
C1_Witness ==
    /\ launch
    /\ Cardinality(FirstHolders) >= 2
    /\ handles = 1 /\ Spawned = 1
    /\ \A t \in FirstHolders : job[t].handle = manager

\* C2: in local-backend mode the handle is constructed, and generate is
\* invoked, only after wait_for_vllm_ready returned normally for the
\* process recorded at that time.
C2_ReadinessGate ==
    launch =>
        /\ (manager # None =>
               handle_proc # None /\ handle_proc[1] \in ready_for)
        /\ (returned.job.gen =>
               handle_proc # None /\ handle_proc[1] \in ready_for)

\* C3: a failure that is not a validation error (a backend startup failure
\* or readiness timeout, an exception of the document loader, an exception
\* of the inference engine) does not leave handler as an exception: the job
\* ends in a returned value.
C3_NoExceptionEscapes ==
    returned.exc \in {"RuntimeError", "LoaderError", "EngineError"}
        \/ returned.msg = "Popen failed"
    => returned.outcome # "raised"

\* C4: a job that created a temp artifact ends with the path gone and with
\* exactly one removal attempted.
C4_ArtifactGoneOnEveryExit ==
    returned.outcome # "none" /\ returned.job.tmp # "none" =>
        returned.job.tmp = "absent" /\ returned.job.unlinks = 1

\* C5: releasing the artifact never fails the job: no job ends by an
\* exception of unlink, and a job that ends where the artifact is released
\* ends as the loader decided.
C5_ReleaseNeverFailsJob ==
    returned.outcome # "none" /\ "unlink" \in io =>
        /\ returned.exc \notin {"PermissionError", "FileNotFoundError"}
        /\ (returned.job.load = "raised" => returned.exc = "LoaderError")
        /\ (returned.job.load = "empty" => returned.exc = "InputError")

\* C6: a job whose input has neither inline content nor a remote reference
\* ends in a validation error, and did no disk I/O (no temp artifact) and no
\* network I/O (no fetch, no health poll, no spawn).
C6_NoPayloadNoIO ==
    returned.outcome # "none" /\ returned.job.nopayload =>
        /\ returned.outcome = "error" /\ returned.exc = "InputError"
        /\ io = {}
        /\ returned.job.tmp = "none" /\ returned.job.unlinks = 0
        /\ returned.job.load = "none"
        /\ ~returned.job.ensured /\ ~returned.job.spawned /\ ~returned.job.polled
        /\ ~returned.job.gen

\* A job without payload has just ended in the error payload.
C6_Witness ==
    /\ returned.job.nopayload
    /\ returned.outcome = "error"
    /\ returned.msg = "Provide either 'file' or 'file_url'"

\* C7: a job whose loader returned zero pages ends in a validation error,
\* without generate, without ensure_manager and without a spawn.
C7_ZeroPagesValidationError ==
    returned.outcome # "none" /\ returned.job.load = "empty" =>
        /\ returned.outcome = "error" /\ returned.exc = "InputError"
        /\ ~returned.job.gen
        /\ ~returned.job.ensured /\ ~returned.job.spawned /\ ~returned.job.polled

\* Where part i of a join starts: after the parts and separators before it.
RECURSIVE C8_Start(_, _, _)
C8_Start(parts, sep, i) ==
    IF i = 1 THEN 1
    ELSE C8_Start(parts, sep, i - 1) + Len(parts[i - 1]) + Len(sep)

\* whole is the parts in order with sep between neighbours, read off
\* position by position.
C8_IsJoin(whole, parts, sep) ==
    LET n == Len(parts)
    IN /\ n >= 1
       /\ Len(whole) = C8_Start(parts, sep, n) + Len(parts[n]) - 1
       /\ \A i \in 1..n :
            LET from == C8_Start(parts, sep, i)
            IN /\ SubSeq(whole, from, from + Len(parts[i]) - 1) = parts[i]
               /\ i < n =>
                    SubSeq(whole, from + Len(parts[i]),
                           from + Len(parts[i]) + Len(sep) - 1) = sep

\* C8: the result of a job over N page images has num_pages = N and N pages,
\* page i carrying index i - 1 and the engine's answer for image i (failed
\* pages included), markdown joined by a blank line and html by a newline.
C8_ResultIsOrderedJoin ==
    returned.outcome = "result" =>
        LET n == Len(returned.images)
            r == returned.ret
            out == [i \in 1..n |-> BatchOutput(returned.images[i])]
        IN /\ n >= 1
           /\ r.num_pages = n
           /\ Len(r.pages) = n
           /\ \A i \in 1..n :
                /\ r.pages[i].page_index = i - 1
                /\ r.pages[i].markdown = out[i].markdown
                /\ r.pages[i].html = out[i].html
                /\ r.pages[i].error = out[i].error
           /\ C8_IsJoin(r.markdown, [i \in 1..n |-> out[i].markdown], <<"\n", "\n">>)
           /\ C8_IsJoin(r.html, [i \in 1..n |-> out[i].html], <<"\n">>)
           /\ (returned.images = <<"imgA", "imgB">> =>
                 /\ r.markdown = <<"A", "\n", "\n", "B">>
                 /\ r.html = <<"<p>", "A", "</p>", "\n", "<p>", "B", "</p>">>)

\* A job over two pages, the first of which failed in the engine, returned.
C8_Witness ==
    /\ returned.outcome = "result"
    /\ returned.images = <<"imgB", "imgA">>
    /\ returned.ret.num_pages = 2
    /\ returned.ret.pages[1].error = "failed"

\* C9: wait_for_vllm_ready never reports the timeout when the supervised
\* process has exited.
C9_NoTimeoutOnExitedProcess ==
    returned.outcome = "raised"
        /\ returned.msg = "Timed out waiting for vLLM server" => ~Exited

\* The job ended by a startup error: Popen failed, the process ended during
\* startup, or the readiness wait timed out.
StartupError ==
    /\ returned.outcome = "raised"
    /\ returned.msg \in {"Popen failed", "vLLM server terminated during startup.",
                         "Timed out waiting for vLLM server"}

\* C10: a startup error leaves manager unset and no handle built; a handle
\* a job holds is the cached one, built by an initialization that ran to
\* its end (so after every failed one); no job holds a handle while manager
\* is unset.
C10_FailedInitLeavesManagerUnset ==
    /\ StartupError => manager = None /\ handles = 0 /\ returned.job.handle = None
    /\ \A t \in Threads :
         job[t].handle # None => job[t].handle = manager /\ handles >= 1
    /\ manager = None => handles = 0 /\ Holders = {}
    /\ \A t \in Threads : pc[t] = "manager_lock" /\ manager = None =>
         job[t].handle = None

\* A readiness timeout has just ended a job that spawned the process, and
\* another job waits to initialize again.
C10_Witness ==
    /\ StartupError
    /\ returned.msg = "Timed out waiting for vLLM server"
    /\ returned.job.spawned
    /\ manager = None
    /\ \E t \in Threads : pc[t] = "manager_lock"

\* The pids of the backend processes that are running.
AlivePids == {p \in Pids : Alive(p)}

\* C11: at most one backend process spawned by the worker is alive, it is
\* the one vllm_process records, and a process is spawned only when all the
\* processes spawned before have exited (the recorded one is None or has
\* exited), whatever the jobs, failed startups and retries before.
C11_AtMostOneBackendAlive ==
    /\ Cardinality(AlivePids) <= 1
    /\ \A p \in AlivePids : vllm_process = <<p>>
    /\ \A p \in Pids : p < Spawned => procs[p] = "exited"
    /\ vllm_process = IF Spawned = 0 THEN None ELSE <<Spawned>>

\* C11's case: a second process was spawned, by a retry after the first
\* one exited, and is running.
C11_Witness ==
    /\ Spawned = 2
    /\ procs[1] = "exited"
    /\ Alive(2)
    /\ vllm_process = <<2>>

\* shutdown_vllm has returned.
Stopped == worker \in {"stopped_noop", "stopped_graceful", "stopped_killed"}

\* C12: shutdown_vllm returns at once, leaving the processes alone, when no
\* process was started or the recorded one has exited; otherwise it asks the
\* process to terminate, leaving it alone, and waits; the wait ends without
\* a kill when the process has ended, and by the kill of a process still
\* alive otherwise; after shutdown_vllm no backend process is running.
C12_StopLeavesNoProcess ==
    /\ [](Stopped => AlivePids = {})
    /\ [][/\ worker = "running" /\ worker' # "running" =>
               /\ UNCHANGED procs
               /\ IF vllm_process = None \/ procs[vllm_process[1]] = "exited"
                  THEN worker' = "stopped_noop"
                  ELSE worker' = "terminate_sent"
          /\ worker = "terminate_sent" /\ worker' # "terminate_sent" =>
               /\ AlivePids # {} <=> worker' = "stopped_killed"
               /\ AlivePids = {} <=> worker' = "stopped_graceful"
               /\ AlivePids = {} => UNCHANGED procs
       ]_vars

\* C12's case: the process outlived the grace period and was killed.
C12_Witness ==
    /\ worker = "stopped_killed"
    /\ vllm_process # None
    /\ procs[vllm_process[1]] = "exited"

\* The positions inside the initialization, under manager_lock.
InitPcs == {"start_vllm_server", "popen", "wait_loop", "poll", "construct"}

\* C13: the first handle built stays cached: manager is never cleared and
\* no other handle is built; while manager is set no thread is inside the
\* initialization and no step spawns a process or polls the health endpoint,
\* so every call of ensure_manager returns by a check of manager; and every
\* job that holds a handle holds the cached one, also when the process
\* behind it has exited.
C13_CachedHandleIsFinal ==
    /\ handles >= 1 => manager = <<1>> /\ handles = 1
    /\ manager # None =>
         /\ manager_lock = {} /\ vllm_lock = {}
         /\ \A t \in Threads : pc[t] \notin InitPcs
         /\ io \cap {"popen", "poll"} = {}
         /\ answer = <<>>
    /\ \A t \in Threads :
         /\ pc[t] = "generate" => job[t].handle = manager /\ manager # None
         /\ job[t].handle # None => job[t].handle = manager

\* C13's case: the process behind the cached handle has exited, and a job
\* that called ensure_manager got the cached handle without spawning or
\* polling.
C13_Witness ==
    /\ launch
    /\ manager # None
    /\ handle_proc # None /\ procs[handle_proc[1]] = "exited"
    /\ \E t \in Holders :
         /\ job[t].handle = manager
         /\ ~job[t].first /\ ~job[t].spawned /\ ~job[t].polled

\* The keys of the dict process_job returns.
ResultKeys == {"filename", "num_pages", "markdown", "html", "pages"}

\* C14: a job that fails in get_file_payload (input empty, inline content
\* that does not decode, failed fetch, no file), whose document has no
\* pages, or whose max_output_tokens is no integer, ends by the error
\* payload and never by an exception; the thread is idle again and holds no
\* lock; a job that succeeds returns a dict with the five result keys.
C14_ValidationFailuresAreReturned ==
    /\ returned.outcome # "none" /\ returned.job.tmp = "none" =>
           returned.outcome = "error" /\ returned.msg # ""
    /\ returned.job.load = "empty" =>
           returned.outcome = "error" /\ returned.msg # ""
    /\ returned.msg = "max_output_tokens must be an integer." =>
           returned.outcome = "error"
    /\ returned.outcome = "error" =>
           /\ \E t \in Threads : pc[t] = "idle"
           /\ \A t \in Threads : pc[t] = "idle" => t \notin manager_lock \cup vllm_lock
    /\ returned.outcome = "result" => DOMAIN returned.ret = ResultKeys

\* C16: a poll the endpoint answers with a status in [200, 500) ends the
\* readiness wait with success; after any other status, or no connection
\* (status 0), the wait goes on.
C16_ServableStatusEndsWait ==
    answer # <<>> =>
        IF 200 =< answer[1] /\ answer[1] < 500
        THEN \E t \in Threads : pc[t] = "construct"
        ELSE \E t \in Threads : pc[t] = "wait_loop"

\* The jobs that were blocked on manager_lock when an initialization failed
\* with a startup error.
WaitedJobs == {t \in Threads : job[t].waited}

\* C17 as stated: a startup error is fatal to the jobs blocked on the
\* failed initialization as well: none of them obtains a handle or reaches
\* the inference call.
C17_FatalToWaitingJobs ==
    \A t \in WaitedJobs : job[t].handle = None /\ pc[t] # "generate"

\* C17 amended: the failed initialization gives no job a handle, it leaves
\* manager unset, no handle built, and the blocked jobs without a handle; a
\* blocked job stays inside ensure_manager until a later initialization, its
\* own or another job's, has run to its end, and the handle it then holds is
\* the cached one.
C17_WaitingJobsRetry ==
    /\ StartupError =>
           /\ manager = None /\ handles = 0
           /\ \A t \in Threads : pc[t] = "manager_lock" =>
                  job[t].waited /\ job[t].handle = None
    /\ \A t \in WaitedJobs :
           /\ pc[t] \in {"manager_lock", "generate"} \cup InitPcs
           /\ pc[t] = "generate" <=> job[t].handle # None
           /\ job[t].handle # None => job[t].handle = manager /\ handles = 1

\* C17's case: a job that was blocked while an initialization failed holds
\* the handle of a later one and is at the inference call.
C17_Witness ==
    \E t \in WaitedJobs : pc[t] = "generate" /\ job[t].handle = manager /\ manager # None

\* C18: after a startup error no process is left running: not the one the
\* failed attempt spawned, and none at all after a readiness timeout while
\* manager is unset.
C18_NoProcessLeftAfterFailedStart ==
    /\ StartupError /\ returned.job.spawned => AlivePids = {}
    /\ returned.outcome = "raised"
           /\ returned.msg = "Timed out waiting for vLLM server"
           /\ manager = None => AlivePids = {}

\* C19: a job that ends in a validation error has not called
\* ensure_manager: it spawned no process, polled nothing and got no handle,
\* also when its only defect is a max_output_tokens that is no integer.
C19_ValidationErrorLeavesBackendAlone ==
    returned.outcome = "error" =>
        /\ ~returned.job.ensured
        /\ ~returned.job.spawned
        /\ ~returned.job.polled
        /\ returned.job.handle = None

\* The positions inside wait_for_vllm_ready.
WaitPcs == {"wait_loop", "poll"}

\* C15: whatever the backend does, a thread inside wait_for_vllm_ready
\* leaves it; it leaves by returning (to the construction of the handle) or
\* by one of the two errors of the wait, the timeout error only once the
\* deadline has passed.
C15_ReadinessWaitTerminates ==
    /\ \A t \in Threads : (pc[t] \in WaitPcs) ~> (pc[t] \notin WaitPcs)
    /\ [][\A t \in Threads : pc[t] \in WaitPcs /\ pc'[t] \notin WaitPcs =>
            \/ pc'[t] = "construct" /\ returned' = Nothing
            \/ /\ pc'[t] = "idle"
               /\ returned'.outcome = "raised"
               /\ \/ returned'.msg = "vLLM server terminated during startup."
                  \/ returned'.msg = "Timed out waiting for vLLM server" /\ expired
       ]_vars

\* C15's case: a wait that polled a backend that never became servable
\* ended by the timeout error.
C15_Witness ==
    /\ returned.outcome = "raised"
    /\ returned.msg = "Timed out waiting for vLLM server"
    /\ returned.job.polled
    /\ AlivePids # {}

\* The positions inside ensure_manager after the first check.
EnsurePcs == {"manager_lock"} \cup InitPcs

\* C20: each lock has at most one holder; vllm_lock is held only by the
\* holder of manager_lock, inside start_vllm_server; a thread outside the
\* initialization holds no lock, whichever way it left; and every thread
\* inside ensure_manager, blocked on manager_lock or holding it, leaves
\* ensure_manager, with a handle or by an exception.
C20_InitializationNeverWedges ==
    /\ [](/\ Cardinality(manager_lock) <= 1
          /\ vllm_lock \subseteq manager_lock
          /\ \A t \in manager_lock : pc[t] \in InitPcs
          /\ \A t \in vllm_lock : pc[t] = "popen")
    /\ \A t \in Threads : (pc[t] \in EnsurePcs) ~> (pc[t] \in {"generate", "idle"})
    /\ [][\A t \in Threads : pc[t] \in EnsurePcs /\ pc'[t] \notin EnsurePcs =>
            \/ pc'[t] = "generate" /\ job'[t].handle = manager' /\ manager' # None
            \/ pc'[t] = "idle" /\ returned'.outcome = "raised"
       ]_vars

\* C20's case: a job that was blocked on manager_lock while an
\* initialization failed holds the lock now.
C20_Witness ==
    \E t \in WaitedJobs : manager_lock = {t} /\ pc[t] \in InitPcs
====
